---- MODULE Spec2Model ----
(***************************************************************************)
(* Model of the passport authentication dispatcher (src/lib/index.js).    *)
(*                                                                         *)
(* authenticate(passport, name, options, callback) builds one handler.    *)
(* The handler is dispatched for requests 1, 2, ... (numbered in arrival  *)
(* order).  JavaScript runs every function to completion, so one action   *)
(* of the model is one synchronous run: the handler's start, one verb a   *)
(* strategy invokes (with everything the verb calls), or one completion   *)
(* callback of an asynchronous collaborator.                              *)
(***************************************************************************)
EXTENDS Integers, Sequences, FiniteSets, TLC

(***************************************************************************)
(* Bounds of the model.                                                    *)
(***************************************************************************)
MaxChain == 2
MaxDispatches == 2
\* the calls of logIn and logOut made on one request
MaxCalls == 3

(***************************************************************************)
(* JavaScript values.  Every value is a record of one shape:              *)
(*   t   the result of typeof                                              *)
(*   n   the number, or 1/0 for true/false                                 *)
(*   s   the string                                                        *)
(*   ty, msg   the `type` and `message` properties of an object; ""       *)
(*             stands for an absent property (the code reads them only    *)
(*             through ||, which treats "" and absent alike).             *)
(***************************************************************************)
Undefined == [t |-> "undefined", n |-> 0, s |-> "", ty |-> "", msg |-> ""]
Null == [t |-> "null", n |-> 0, s |-> "", ty |-> "", msg |-> ""]
JSBool(b) == [t |-> "boolean", n |-> IF b THEN 1 ELSE 0, s |-> "", ty |-> "", msg |-> ""]
JSNum(k) == [t |-> "number", n |-> k, s |-> "", ty |-> "", msg |-> ""]
JSStr(x) == [t |-> "string", n |-> 0, s |-> x, ty |-> "", msg |-> ""]
JSObj(type, message) == [t |-> "object", n |-> 0, s |-> "", ty |-> type, msg |-> message]

TypeOf(v) == v.t

Truthy(v) ==
  CASE v.t = "undefined" -> FALSE
    [] v.t = "null" -> FALSE
    [] v.t = "boolean" -> v.n = 1
    [] v.t = "number" -> v.n # 0
    [] v.t = "string" -> v.s # ""
    [] OTHER -> TRUE

\* a || b
Or(a, b) == IF Truthy(a) THEN a ELSE b

\* v.type and v.message; a property of a primitive is undefined
PropType(v) == IF v.t = "object" /\ v.ty # "" THEN JSStr(v.ty) ELSE Undefined
PropMessage(v) == IF v.t = "object" /\ v.msg # "" THEN JSStr(v.msg) ELSE Undefined

(***************************************************************************)
(* Strategy references.  "local" is a name the registry knows, "ghost" a  *)
(* name it does not know, "inst" a strategy instance passed directly (an  *)
(* object that has an authenticate function).                             *)
(***************************************************************************)
Registered == {"local"}
Instances == {"inst"}
Refs == {"local", "ghost", "inst"}

HasAuthenticate(layer) == layer \in Instances

\* passport._strategy(layer): the registered prototype, or nothing
StrategyLookup(layer) == layer \in Registered

(***************************************************************************)
(* Inputs.                                                                 *)
(***************************************************************************)
\* the arguments of a strategy's fail(challenge, status)
FailCalls ==
  { <<Undefined, Undefined>>,
    <<JSStr("basic"), JSNum(401)>>,
    <<JSStr("bearer"), Undefined>>,
    <<JSObj("x", "denied"), JSNum(403)>>,
    <<JSNum(403), Undefined>> }

Users == {JSStr("alice"), JSStr("bob")}
Infos == {Undefined, JSObj("", "welcome")}
\* the arguments of a strategy's redirect(url, status)
RedirectCalls == { <<"/idp", Undefined>>, <<"/idp", JSNum(301)>> }
Causes == {"boom"}

FlashOptions == {Undefined, JSBool(TRUE), JSStr("notice"), JSObj("", "hello")}
MessageOptions == {Undefined, JSBool(TRUE), JSStr("note")}

DefaultOptions ==
  [ failureFlash |-> Undefined,
    failureMessage |-> Undefined,
    failureRedirect |-> "",
    failWithError |-> FALSE,
    successFlash |-> Undefined,
    successMessage |-> Undefined,
    assignProperty |-> "",
    successRedirect |-> "",
    successReturnToOrRedirect |-> "",
    authInfo |-> TRUE ]

AllOptions ==
  [ failureFlash : FlashOptions,
    failureMessage : MessageOptions,
    failureRedirect : {"", "/login"},
    failWithError : BOOLEAN,
    successFlash : FlashOptions,
    successMessage : MessageOptions,
    assignProperty : {"", "account"},
    successRedirect : {"", "/home"},
    successReturnToOrRedirect : {"", "/back"},
    authInfo : BOOLEAN ]

\* The options fall into three groups that the code reads in different places:
\* allFailed reads the first, success the second, complete (and the branch of
\* success that leads to it) the third.
FailureOptions == {"failureFlash", "failureMessage", "failureRedirect", "failWithError"}
SuccessNotices == {"successFlash", "successMessage"}
CompletionOptions == {"assignProperty", "successRedirect", "successReturnToOrRedirect",
                      "authInfo"}
OptionGroups == {FailureOptions, SuccessNotices, CompletionOptions}

(***************************************************************************)
(* State.                                                                  *)
(*   name, multi, callback, options   what authenticate() was built with  *)
(*       (name after the cast to an array; callback: whether one was      *)
(*       supplied)                                                         *)
(*   session     req.session, the session of the client behind the        *)
(*               requests                                                  *)
(*   d           per request: the closure state of its dispatch (failures)*)
(*               and what the dispatch did to req, res, next and callback *)
(*   pending     the asynchronous work in flight: strategies that have    *)
(*               not yet invoked their verb, and collaborators that have  *)
(*               not yet called back                                       *)
(*   bound       the dispatch closure whose verbs are attached to the     *)
(*               strategy instance "inst" (the last one to attach them)   *)
(*   dispatched  how many requests the handler has been called for        *)
(*   sm          a SessionManager and the request it logs in and out      *)
(***************************************************************************)
VARIABLES name, multi, callback, options, session, d, pending, bound, dispatched, sm

vars == <<name, multi, callback, options, session, d, pending, bound, dispatched, sm>>

Reqs == 1..MaxDispatches

NoResponse ==
  [ statusCode |-> 0, wwwAuthenticate |-> <<>>, location |-> "",
    contentLength |-> "", ended |-> 0, body |-> 0 ]

IdleDispatch ==
  [ started |-> FALSE,
    failures |-> <<>>,
    attempts |-> <<>>,
    allFailedRuns |-> 0,
    callbackCalls |-> <<>>,
    nextCalls |-> <<>>,
    flashes |-> <<>>,
    messages |-> <<>>,
    redirects |-> <<>>,
    saves |-> <<>>,
    logIns |-> <<>>,
    assigned |-> Undefined,
    authInfo |-> FALSE,
    res |-> NoResponse,
    verbs |-> <<>> ]

NoBinding == [req |-> 0, idx |-> 0]

Task(kind, r, i, url) == [kind |-> kind, req |-> r, idx |-> i, url |-> url]

\* an argument of callback(): a single value, an array of values, or not passed
Scalar(v) == [isArray |-> FALSE, items |-> <<v>>]
Array(vs) == [isArray |-> TRUE, items |-> vs]
NotPassed == [isArray |-> FALSE, items |-> <<>>]

\* what next() is called with: nothing, or an error
NextOk == [err |-> "", code |-> 0, status |-> Undefined]
NextError(what) == [err |-> what, code |-> 0, status |-> Undefined]
AuthenticationError(code, status) == [err |-> "AuthenticationError", code |-> code, status |-> status]

(***************************************************************************)
(* One synchronous run works on a "world": the dispatch of request r (d), *)
(* the session and the options as the run has changed them so far, and    *)
(* the asynchronous work it has started (spawn).                          *)
(***************************************************************************)
World(r) == [r |-> r, d |-> d[r], session |-> session, options |-> options, spawn |-> <<>>]

Spawn(w, task) == [w EXCEPT !.spawn = Append(@, task)]
CallNext(w, arg) == [w EXCEPT !.d.nextCalls = Append(@, arg)]
CallCallback(w, err, user, info, status) ==
  [w EXCEPT !.d.callbackCalls =
     Append(@, [err |-> err, user |-> user, info |-> info, status |-> status])]
\* req.flash(type, msg); site: the procedure that calls it
ReqFlash(w, site, type, msg) ==
  [w EXCEPT !.d.flashes = Append(@, [site |-> site, type |-> type.s, msg |-> msg.s])]
ResRedirect(w, url) == [w EXCEPT !.d.redirects = Append(@, url)]

\* req.session.messages = req.session.messages || []; req.session.messages.push(msg)
\* (d.messages: the messages this dispatch has pushed; site: the procedure
\* that pushes)
PushMessage(w, site, msg) ==
  [w EXCEPT !.session.messages = Append(@, msg.s),
            !.d.messages = Append(@, [site |-> site, msg |-> msg.s])]

\* (a variant that does not wait for the save)
RedirectWithoutWaiting(w, url) ==
  IF w.session.exists /\ w.session.canSave
  THEN ResRedirect(Spawn([w EXCEPT !.d.saves = Append(@, url)], Task("save", w.r, 0, url)), url)
  ELSE ResRedirect(w, url)

\* function redirect(url)
Redirect(w, url) ==
  IF w.session.exists /\ w.session.canSave
  THEN Spawn([w EXCEPT !.d.saves = Append(@, url)], Task("save", w.r, 0, url))
  ELSE ResRedirect(w, url)

(***************************************************************************)
(* allFailed()                                                             *)
(***************************************************************************)
\* if (options.failureFlash) { ... }
FailureFlash(w, challenge) ==
  LET opt == w.options.failureFlash
      flash0 == IF TypeOf(opt) = "string" THEN JSObj("error", opt.s) ELSE opt
      flash == IF TypeOf(flash0) # "boolean"
               THEN [flash0 EXCEPT !.ty = IF @ # "" THEN @ ELSE "error"]
               ELSE flash0
      \* flash is options.failureFlash itself unless the string was wrapped
      w1 == IF TypeOf(opt) = "string" THEN w
            ELSE [w EXCEPT !.options.failureFlash = flash]
      type == Or(Or(PropType(flash), PropType(challenge)), JSStr("error"))
      msg == Or(Or(PropMessage(flash), PropMessage(challenge)), challenge)
  IN IF ~Truthy(opt) THEN w
     ELSE IF TypeOf(msg) = "string" THEN ReqFlash(w1, "failure", type, msg) ELSE w1

\* if (options.failureMessage) { ... }
FailureMessage(w, challenge) ==
  LET opt == w.options.failureMessage
      msg == IF TypeOf(opt) = "boolean" THEN Or(PropMessage(challenge), challenge) ELSE opt
  IN IF ~Truthy(opt) THEN w
     ELSE IF TypeOf(msg) = "string" THEN PushMessage(w, "failure", msg) ELSE w

\* (a variant in which a later status overrides an earlier one)
RECURSIVE FoldStatusLast(_, _, _)
FoldStatusLast(failures, k, rstatus) ==
  IF k > Len(failures) THEN rstatus
  ELSE FoldStatusLast(failures, k + 1, Or(failures[k].status, rstatus))

\* failures.forEach(({challenge, status}) => { rstatus = rstatus || status; ... })
RECURSIVE FoldStatus(_, _, _)
FoldStatus(failures, k, rstatus) ==
  IF k > Len(failures) THEN rstatus
  ELSE FoldStatus(failures, k + 1, Or(rstatus, failures[k].status))

\* (a variant that takes the challenge of the first failure only)
FirstChallengeOnly(failures, k, rchallenge) ==
  IF Len(failures) >= 1 /\ TypeOf(failures[1].challenge) = "string"
  THEN <<failures[1].challenge.s>>
  ELSE <<>>

\* ... if (typeof challenge === 'string') { rchallenge.push(challenge); }
RECURSIVE FoldChallenge(_, _, _)
FoldChallenge(failures, k, rchallenge) ==
  IF k > Len(failures) THEN rchallenge
  ELSE FoldChallenge(failures, k + 1,
         IF TypeOf(failures[k].challenge) = "string"
         THEN Append(rchallenge, failures[k].challenge.s)
         ELSE rchallenge)

\* the default response: status, WWW-Authenticate, then next(error) or end
Unauthorized(w) ==
  LET rchallenge == FoldChallenge(w.d.failures, 1, <<>>)
      rstatus == FoldStatus(w.d.failures, 1, Undefined)
      statusCode == Or(rstatus, JSNum(401)).n
      w1 == [w EXCEPT !.d.res.statusCode = statusCode]
      w2 == IF statusCode = 401 /\ Len(rchallenge) # 0
            THEN [w1 EXCEPT !.d.res.wwwAuthenticate = rchallenge]
            ELSE w1
  IN IF w.options.failWithError
     THEN CallNext(w2, AuthenticationError(statusCode, rstatus))
     ELSE [w2 EXCEPT !.d.res.ended = @ + 1, !.d.res.body = statusCode]

ChallengesOf(failures) == [k \in 1..Len(failures) |-> failures[k].challenge]
StatusesOf(failures) == [k \in 1..Len(failures) |-> failures[k].status]

\* (a variant that shapes the result by the number of failures)
FailedCallbackByLength(w) ==
  LET failures == w.d.failures
  IN IF Len(failures) = 1
     THEN CallCallback(w, Scalar(Null), Scalar(JSBool(FALSE)),
                       Scalar(failures[1].challenge), Scalar(failures[1].status))
     ELSE CallCallback(w, Scalar(Null), Scalar(JSBool(FALSE)),
                       Array(ChallengesOf(failures)), Array(StatusesOf(failures)))

\* allFailed, if (callback) { ... }
FailedCallback(w) ==
  LET failures == w.d.failures
  IN IF ~multi
     THEN CallCallback(w, Scalar(Null), Scalar(JSBool(FALSE)),
                       Scalar(failures[1].challenge), Scalar(failures[1].status))
     ELSE CallCallback(w, Scalar(Null), Scalar(JSBool(FALSE)),
                       Array(ChallengesOf(failures)), Array(StatusesOf(failures)))

\* (a variant that reads failures[0] without the `|| {}`)
AllFailedReadsFirstFailure(w0) ==
  LET w == [w0 EXCEPT !.d.allFailedRuns = @ + 1]
      failures == w.d.failures
  IN IF callback THEN FailedCallback(w)
     ELSE IF Len(failures) = 0 THEN CallNext(w, NextError("TypeError"))
     ELSE LET challenge == Or(failures[1].challenge, JSObj("", ""))
              w1 == FailureFlash(w, challenge)
              w2 == FailureMessage(w1, challenge)
          IN IF w2.options.failureRedirect # ""
             THEN Redirect(w2, w2.options.failureRedirect)
             ELSE Unauthorized(w2)

\* function allFailed()
AllFailed(w0) ==
  LET w == [w0 EXCEPT !.d.allFailedRuns = @ + 1]
      failures == w.d.failures
  IN IF callback THEN FailedCallback(w)
     ELSE LET failure == IF Len(failures) > 0 THEN failures[1]
                         ELSE [challenge |-> Undefined, status |-> Undefined]
              challenge == Or(failure.challenge, JSObj("", ""))
              w1 == FailureFlash(w, challenge)
              w2 == FailureMessage(w1, challenge)
          IN IF w2.options.failureRedirect # ""
             THEN Redirect(w2, w2.options.failureRedirect)
             ELSE Unauthorized(w2)

(***************************************************************************)
(* attempt(i): resolve the strategy at index i, attach the verbs and call *)
(* its authenticate.  The strategy is then in flight until it invokes a   *)
(* verb.                                                                   *)
(***************************************************************************)
\* (a variant that takes an unknown name for the end of the chain)
AttemptSkipsUnknown(w, i) ==
  IF i >= Len(name) THEN AllFailed(w)
  ELSE LET layer == name[i + 1]
       IN IF ~HasAuthenticate(layer) /\ ~StrategyLookup(layer)
          THEN AllFailed(w)
          ELSE Spawn([w EXCEPT !.d.attempts = Append(@, i)], Task("strategy", w.r, i, ""))

\* (name[i] is absent exactly when i is past the end: every reference of the
\* chain is a non-empty name or an object)
Attempt(w, i) ==
  IF i >= Len(name) THEN AllFailed(w)
  ELSE LET layer == name[i + 1]
       IN IF ~HasAuthenticate(layer) /\ ~StrategyLookup(layer)
          THEN CallNext(w, NextError("UnknownStrategy"))
          ELSE Spawn([w EXCEPT !.d.attempts = Append(@, i)], Task("strategy", w.r, i, ""))

(***************************************************************************)
(* The verbs, as attached by attempt(i).                                   *)
(***************************************************************************)
\* if (options.successFlash) { ... }
SuccessFlash(w, info) ==
  LET opt == w.options.successFlash
      flash0 == IF TypeOf(opt) = "string" THEN JSObj("success", opt.s) ELSE opt
      flash == IF TypeOf(flash0) # "boolean"
               THEN [flash0 EXCEPT !.ty = IF @ # "" THEN @ ELSE "success"]
               ELSE flash0
      w1 == IF TypeOf(opt) = "string" THEN w
            ELSE [w EXCEPT !.options.successFlash = flash]
      type == Or(Or(PropType(flash), PropType(info)), JSStr("success"))
      msg == Or(Or(PropMessage(flash), PropMessage(info)), info)
  IN IF ~Truthy(opt) THEN w
     ELSE IF TypeOf(msg) = "string" THEN ReqFlash(w1, "success", type, msg) ELSE w1

\* if (options.successMessage) { ... }
SuccessMessage(w, info) ==
  LET opt == w.options.successMessage
      msg == IF TypeOf(opt) = "boolean" THEN Or(PropMessage(info), info) ELSE opt
  IN IF ~Truthy(opt) THEN w
     ELSE IF TypeOf(msg) = "string" THEN PushMessage(w, "success", msg) ELSE w

\* (a variant whose callback branch does not return)
SuccessFallsThrough(w0, user, info0) ==
  LET w == IF callback THEN CallCallback(w0, Scalar(Null), Scalar(user), Scalar(info0), NotPassed)
           ELSE w0
      info == Or(info0, JSObj("", ""))
      w1 == SuccessFlash(w, info)
      w2 == SuccessMessage(w1, info)
  IN IF w2.options.assignProperty # ""
     THEN CallNext([w2 EXCEPT !.d.assigned = user], NextOk)
     ELSE Spawn([w2 EXCEPT !.d.logIns = Append(@, user)], Task("logIn", w.r, 0, ""))

\* (a variant whose assignProperty branch does not return)
SuccessAssignsThenLogsIn(w, user, info0) ==
  IF callback THEN CallCallback(w, Scalar(Null), Scalar(user), Scalar(info0), NotPassed)
  ELSE LET info == Or(info0, JSObj("", ""))
           w1 == SuccessFlash(w, info)
           w2 == SuccessMessage(w1, info)
           w3 == IF w2.options.assignProperty # ""
                 THEN CallNext([w2 EXCEPT !.d.assigned = user], NextOk)
                 ELSE w2
       IN Spawn([w3 EXCEPT !.d.logIns = Append(@, user)], Task("logIn", w.r, 0, ""))

\* strategy.success = function success(user, info)
Success(w, user, info0) ==
  IF callback THEN CallCallback(w, Scalar(Null), Scalar(user), Scalar(info0), NotPassed)
  ELSE LET info == Or(info0, JSObj("", ""))
           w1 == SuccessFlash(w, info)
           w2 == SuccessMessage(w1, info)
       IN IF w2.options.assignProperty # ""
          THEN CallNext([w2 EXCEPT !.d.assigned = user], NextOk)
          ELSE Spawn([w2 EXCEPT !.d.logIns = Append(@, user)], Task("logIn", w.r, 0, ""))

\* (a variant that puts the new failure first)
FailUnshift(w, i, challenge0, status0) ==
  LET numeric == TypeOf(challenge0) = "number"
      status == IF numeric THEN challenge0 ELSE status0
      challenge == IF numeric THEN Undefined ELSE challenge0
  IN Attempt([w EXCEPT !.d.failures = <<[challenge |-> challenge, status |-> status]>> \o @],
             i + 1)

\* (a variant that sets the failure status on the response at once)
FailRespondsAtOnce(w, i, challenge0, status0) ==
  LET numeric == TypeOf(challenge0) = "number"
      status == IF numeric THEN challenge0 ELSE status0
      challenge == IF numeric THEN Undefined ELSE challenge0
  IN Attempt([w EXCEPT !.d.failures = Append(@, [challenge |-> challenge, status |-> status]),
                       !.d.res.statusCode = Or(status, JSNum(401)).n],
             i + 1)

\* (a variant that keeps a numeric first argument as the challenge)
FailKeepsNumber(w, i, challenge0, status0) ==
  Attempt([w EXCEPT !.d.failures = Append(@, [challenge |-> challenge0, status |-> status0])],
          i + 1)

\* strategy.fail = function fail(challenge, status), attached by attempt(i)
Fail(w, i, challenge0, status0) ==
  LET numeric == TypeOf(challenge0) = "number"
      status == IF numeric THEN challenge0 ELSE status0
      challenge == IF numeric THEN Undefined ELSE challenge0
  IN Attempt([w EXCEPT !.d.failures = Append(@, [challenge |-> challenge, status |-> status])],
             i + 1)

\* strategy.redirect = function redirect(url, status)
StrategyRedirect(w, url, status) ==
  [w EXCEPT !.d.res.statusCode = Or(status, JSNum(302)).n,
            !.d.res.location = url,
            !.d.res.contentLength = "0",
            !.d.res.ended = @ + 1]

\* (a variant that moves on to the next strategy)
PassAdvances(w) == Attempt(w, Len(w.d.attempts))

\* strategy.pass = function pass()
Pass(w) == CallNext(w, NextOk)

\* (a variant that does not look at the callback)
ErrorToNext(w, err) == CallNext(w, NextError(err))

\* strategy.error = function error(err)
Error(w, err) ==
  IF callback THEN CallCallback(w, Scalar(JSStr(err)), NotPassed, NotPassed, NotPassed)
  ELSE CallNext(w, NextError(err))

(***************************************************************************)
(* The continuations of req.logIn and passport.transformAuthInfo.         *)
(***************************************************************************)
\* (a variant that looks at successRedirect first)
CompletePrefersSuccessRedirect(w) ==
  IF w.options.successRedirect # ""
  THEN Redirect(w, w.options.successRedirect)
  ELSE IF w.options.successReturnToOrRedirect # ""
       THEN IF w.session.exists /\ w.session.returnTo # ""
            THEN Redirect([w EXCEPT !.session.returnTo = ""], w.session.returnTo)
            ELSE Redirect(w, w.options.successReturnToOrRedirect)
       ELSE CallNext(w, NextOk)

\* (a variant that leaves returnTo in the session)
CompleteKeepsReturnTo(w) ==
  IF w.options.successReturnToOrRedirect # ""
  THEN IF w.session.exists /\ w.session.returnTo # ""
       THEN Redirect(w, w.session.returnTo)
       ELSE Redirect(w, w.options.successReturnToOrRedirect)
  ELSE IF w.options.successRedirect # ""
       THEN Redirect(w, w.options.successRedirect)
       ELSE CallNext(w, NextOk)

\* function complete()
Complete(w) ==
  IF w.options.successReturnToOrRedirect # ""
  THEN IF w.session.exists /\ w.session.returnTo # ""
       THEN Redirect([w EXCEPT !.session.returnTo = ""], w.session.returnTo)
       ELSE Redirect(w, w.options.successReturnToOrRedirect)
  ELSE IF w.options.successRedirect # ""
       THEN Redirect(w, w.options.successRedirect)
       ELSE CallNext(w, NextOk)

\* (a variant whose error branch does not return)
LoggedInFallsThrough(w, err) ==
  LET w1 == IF err # "" THEN CallNext(w, NextError(err)) ELSE w
  IN IF w1.options.authInfo # FALSE
     THEN Spawn(w1, Task("transform", w1.r, 0, ""))
     ELSE Complete(w1)

\* req.logIn(user, options, (err) => { ... })
LoggedIn(w, err) ==
  IF err # "" THEN CallNext(w, NextError(err))
  ELSE IF w.options.authInfo # FALSE
       THEN Spawn(w, Task("transform", w.r, 0, ""))
       ELSE Complete(w)

\* passport.transformAuthInfo(info, req, (err, tinfo) => { ... })
Transformed(w, err) ==
  IF err # "" THEN CallNext(w, NextError(err))
  ELSE Complete([w EXCEPT !.d.authInfo = TRUE])

(***************************************************************************)
(* Construction: authenticate(passport, name, options, callback).         *)
(***************************************************************************)
RECURSIVE SeqsUpTo(_, _)
SeqsUpTo(S, n) ==
  IF n = 0 THEN {<<>>}
  ELSE LET shorter == SeqsUpTo(S, n - 1)
       IN shorter \cup {Append(q, x) : q \in shorter, x \in S}

NoSession == [exists |-> FALSE, canSave |-> FALSE, returnTo |-> "", messages |-> <<>>]
Sessions ==
  {NoSession} \cup
  [exists : {TRUE}, canSave : BOOLEAN, returnTo : {"", "/dash"}, messages : {<<>>}]

\* the option objects the handler is built with: every combination of values
\* within one group of options, the other groups left at their defaults
Configurations ==
  {o \in AllOptions :
     \E g \in OptionGroups : \A f \in (DOMAIN DefaultOptions) \ g : o[f] = DefaultOptions[f]}

\* failureMessage and successMessage store into req.session.messages: they are
\* used on requests that have a session
NeedsSession(o) == Truthy(o.failureMessage) \/ Truthy(o.successMessage)

\* if (!Array.isArray(name)) { name = [name]; multi = false; }
Build(given, isArray, o, cb) ==
  /\ name = (IF isArray THEN given ELSE <<given>>)
  /\ multi = isArray
  /\ options = o
  /\ callback = cb

\* a SessionManager with the default key and a request it has not touched
\* (this._key, req._passport, req._passport.session, req.session,
\* req.session[this._key], another entry of req.session); heap: the objects
\* that req._passport.session and req.session[this._key] refer to; the rest
\* records the calls made
Manager(key, hasPassport, hasSession, cart, records, linked) ==
  [ key |-> key,
    hasPassport |-> hasPassport,
    passportSession |-> IF linked THEN 1 ELSE 0,
    hasSession |-> hasSession,
    record |-> IF linked THEN 1 ELSE 0,
    cart |-> cart,
    heap |-> records,
    calls |-> 0,
    logIns |-> 0,
    serializeCalls |-> 0,
    serializing |-> <<>>,
    done |-> <<>>,
    logOuts |-> 0,
    threw |-> FALSE ]

NoManager == Manager("passport", FALSE, FALSE, "", <<>>, FALSE)

Idle ==
  /\ d = [r \in Reqs |-> IdleDispatch]
  /\ pending = <<>>
  /\ bound = NoBinding
  /\ dispatched = 0
  /\ sm = NoManager

\* the sequences of strategies the handler of Spec is built with.  Within one
\* dispatch attempt(i) treats an instance and a registered name alike once it
\* has the strategy, so the instance is placed first and the rest are names
Chains == {q \in SeqsUpTo(Refs, MaxChain) : \A i \in 2..Len(q) : q[i] \notin Instances}

Init ==
  /\ \E o \in Configurations, cb \in BOOLEAN :
       \/ \E given \in Refs : Build(given, FALSE, o, cb)
       \/ \E given \in Chains : Build(given, TRUE, o, cb)
  /\ session \in Sessions
  /\ NeedsSession(options) => session.exists
  /\ Idle

(***************************************************************************)
(* Actions.                                                                *)
(***************************************************************************)
Remove(q, k) == [j \in 1..(Len(q) - 1) |-> IF j < k THEN q[j] ELSE q[j + 1]]

\* attempt(i) attaches the verbs of its closure to the strategy object: to the
\* instance itself (strategy = layer), or to a fresh Object.create(prototype)
Rebind(spawn) ==
  IF \E j \in 1..Len(spawn) : spawn[j].kind = "strategy" /\ HasAuthenticate(name[spawn[j].idx + 1])
  THEN LET j == CHOOSE j \in 1..Len(spawn) :
                  spawn[j].kind = "strategy" /\ HasAuthenticate(name[spawn[j].idx + 1])
       IN [req |-> spawn[j].req, idx |-> spawn[j].idx]
  ELSE bound

\* the closure whose verbs `this.success`, `this.fail`, ... of a strategy in
\* flight resolve to
VerbsOf(task) ==
  IF HasAuthenticate(name[task.idx + 1]) THEN bound
  ELSE [req |-> task.req, idx |-> task.idx]

\* d.verbs: the verbs invoked on the closures of this dispatch; from: the
\* request whose strategy invoked the verb
Invoked(task, verb, a, b) ==
  LET c == VerbsOf(task)
      w == World(c.req)
  IN [w EXCEPT !.d.verbs =
        Append(@, [from |-> task.req, idx |-> c.idx, verb |-> verb, a |-> a, b |-> b])]

\* the end of a synchronous run on world w; k is the task that ran (0: none)
Commit(w, k) ==
  /\ d' = [d EXCEPT ![w.r] = w.d]
  /\ session' = w.session
  /\ options' = w.options
  /\ pending' = (IF k = 0 THEN pending ELSE Remove(pending, k)) \o w.spawn
  /\ bound' = Rebind(w.spawn)
  /\ UNCHANGED <<name, multi, callback, sm>>

\* the handler is called for request r, the next to arrive
Arrive(r) ==
  /\ r = dispatched + 1
  /\ r \in Reqs
  /\ dispatched' = r
  /\ Commit(Attempt([World(r) EXCEPT !.d.started = TRUE], 0), 0)

\* the handler is called for a request
Handle == dispatched = 0 /\ Arrive(1)

\* the handler is called for a request while earlier ones are in flight
HandleConcurrently(r) ==
  /\ r \in Reqs
  /\ Arrive(r)

Tasks(kind) == {k \in 1..Len(pending) : pending[k].kind = kind}

\* a strategy in flight calls this.success(user, info)
InvokeSuccess ==
  \E k \in Tasks("strategy"), user \in Users, info \in Infos :
    /\ Commit(Success(Invoked(pending[k], "success", user, info), user, info), k)
    /\ UNCHANGED dispatched

\* a strategy in flight calls this.fail(challenge, status)
InvokeFail ==
  \E k \in Tasks("strategy"), f \in FailCalls :
    /\ Commit(Fail(Invoked(pending[k], "fail", f[1], f[2]),
                   VerbsOf(pending[k]).idx, f[1], f[2]), k)
    /\ UNCHANGED dispatched

\* a strategy in flight calls this.redirect(url, status)
InvokeRedirect ==
  \E k \in Tasks("strategy"), c \in RedirectCalls :
    /\ Commit(StrategyRedirect(Invoked(pending[k], "redirect", JSStr(c[1]), c[2]),
                               c[1], c[2]), k)
    /\ UNCHANGED dispatched

\* a strategy in flight calls this.pass()
InvokePass ==
  \E k \in Tasks("strategy") :
    /\ Commit(Pass(Invoked(pending[k], "pass", Undefined, Undefined)), k)
    /\ UNCHANGED dispatched

\* a strategy in flight calls this.error(err)
InvokeError ==
  \E k \in Tasks("strategy"), err \in Causes :
    /\ Commit(Error(Invoked(pending[k], "error", JSStr(err), Undefined), err), k)
    /\ UNCHANGED dispatched

\* req.logIn calls back, with an error or without
LogInDone ==
  \E k \in Tasks("logIn"), err \in {"", "LogInFailed"} :
    /\ Commit(LoggedIn(World(pending[k].req), err), k)
    /\ UNCHANGED dispatched

\* passport.transformAuthInfo calls back, with an error or without
TransformDone ==
  \E k \in Tasks("transform"), err \in {"", "TransformFailed"} :
    /\ Commit(Transformed(World(pending[k].req), err), k)
    /\ UNCHANGED dispatched

\* req.session.save calls back: () => res.redirect(url)
SaveDone ==
  \E k \in Tasks("save") :
    /\ Commit(ResRedirect(World(pending[k].req), pending[k].url), k)
    /\ UNCHANGED dispatched

(***************************************************************************)
(* Spec: the handler dispatches one request.                               *)
(***************************************************************************)
Next ==
  \/ Handle
  \/ InvokeSuccess
  \/ InvokeFail
  \/ InvokeRedirect
  \/ InvokePass
  \/ InvokeError
  \/ LogInDone
  \/ TransformDone
  \/ SaveDone

Spec == Init /\ [][Next]_vars

(***************************************************************************)
(* SpecConc: the handler is called for several requests, a later one      *)
(* while the strategies of earlier ones are suspended in asynchronous     *)
(* work.                                                                   *)
(***************************************************************************)
InitConc ==
  /\ \E o \in {DefaultOptions, [DefaultOptions EXCEPT !.successRedirect = "/home"]},
        cb \in BOOLEAN :
       \/ \E given \in Refs : Build(given, FALSE, o, cb)
       \/ \E given \in SeqsUpTo(Refs, MaxChain) : Build(given, TRUE, o, cb)
  /\ session = [exists |-> TRUE, canSave |-> TRUE, returnTo |-> "", messages |-> <<>>]
  /\ Idle

NextConc ==
  \/ \E r \in Reqs : HandleConcurrently(r)
  \/ InvokeSuccess
  \/ InvokeFail
  \/ InvokeRedirect
  \/ InvokePass
  \/ InvokeError
  \/ LogInDone
  \/ TransformDone
  \/ SaveDone

SpecConc == InitConc /\ [][NextConc]_vars

(***************************************************************************)
(* SpecSeq: a handler built for one strategy is called for one request    *)
(* after another, each when the one before has been resolved; the session *)
(* lives on from request to request.                                       *)
(***************************************************************************)
\* the handler is called for a further request
HandleNext ==
  /\ dispatched >= 1
  /\ pending = <<>>
  /\ Arrive(dispatched + 1)

\* the handlers of SpecSeq configure what follows a success
CompletionConfigurations ==
  {o \in AllOptions :
     \A f \in (DOMAIN DefaultOptions) \ CompletionOptions : o[f] = DefaultOptions[f]}

InitSeq ==
  /\ \E o \in CompletionConfigurations, cb \in BOOLEAN, given \in Registered \cup Instances :
       Build(given, FALSE, o, cb)
  /\ session \in Sessions
  /\ NeedsSession(options) => session.exists
  /\ Idle

NextSeq ==
  \/ Handle
  \/ HandleNext
  \/ InvokeSuccess
  \/ InvokeFail
  \/ InvokeRedirect
  \/ InvokePass
  \/ InvokeError
  \/ LogInDone
  \/ TransformDone
  \/ SaveDone

SpecSeq == InitSeq /\ [][NextSeq]_vars

(***************************************************************************)
(* SpecFailure: one request is dispatched by a handler whose strategies   *)
(* are all known and whose options configure what follows a failure.      *)
(***************************************************************************)
FailureConfigurations ==
  {o \in AllOptions :
     \A f \in (DOMAIN DefaultOptions) \ FailureOptions : o[f] = DefaultOptions[f]}

InitFailure ==
  /\ \E o \in FailureConfigurations, cb \in BOOLEAN :
       \/ \E given \in Registered \cup Instances : Build(given, FALSE, o, cb)
       \/ \E given \in SeqsUpTo(Registered \cup Instances, MaxChain) : Build(given, TRUE, o, cb)
  /\ session \in Sessions
  /\ NeedsSession(options) => session.exists
  /\ Idle

SpecFailure == InitFailure /\ [][Next]_vars

(***************************************************************************)
(* SpecLive: one request is dispatched, every strategy in flight invokes  *)
(* a verb and every collaborator (req.logIn, passport.transformAuthInfo,  *)
(* req.session.save) calls back.                                           *)
(***************************************************************************)
\* options that differ from the defaults in at most one way of ending a
\* dispatch
LiveConfigurations ==
  { DefaultOptions,
    [DefaultOptions EXCEPT !.failureRedirect = "/login"],
    [DefaultOptions EXCEPT !.failWithError = TRUE],
    [DefaultOptions EXCEPT !.assignProperty = "account"],
    [DefaultOptions EXCEPT !.successRedirect = "/home"],
    [DefaultOptions EXCEPT !.successReturnToOrRedirect = "/back"],
    [DefaultOptions EXCEPT !.authInfo = FALSE] }

InitLive ==
  /\ \E o \in LiveConfigurations, cb \in BOOLEAN :
       \/ \E given \in Refs : Build(given, FALSE, o, cb)
       \/ \E given \in SeqsUpTo(Refs, MaxChain) : Build(given, TRUE, o, cb)
  /\ session \in {NoSession} \cup
                 [exists : {TRUE}, canSave : BOOLEAN, returnTo : {"/dash"}, messages : {<<>>}]
  /\ Idle

\* what is in flight goes on: a strategy invokes one of its verbs, a
\* collaborator calls back
GoOn ==
  \/ InvokeSuccess
  \/ InvokeFail
  \/ InvokeRedirect
  \/ InvokePass
  \/ InvokeError
  \/ LogInDone
  \/ TransformDone
  \/ SaveDone

SpecLive == InitLive /\ [][Next]_vars /\ WF_vars(GoOn)

(***************************************************************************)
(* SessionManager (sessionmanager.js).                                    *)
(***************************************************************************)
\* the options.key a SessionManager is constructed with (undefined also when
\* no options are given)
KeyOptions == {Undefined, JSStr(""), JSStr("auth")}

\* this._key = options.key || 'passport'
SessionManagerKey(optionsKey) == Or(optionsKey, JSStr("passport")).s

\* what a serializer hands to its callback for a user
SerializedForms == {"id-1", "id-2"}

\* req._passport.session = {}
EmptyRecord == [user |-> "", other |-> ""]

\* SessionManager.prototype.logIn, up to the call of this._serializeUser
LogIn(m, user) ==
  [m EXCEPT !.logIns = @ + 1,
            !.serializeCalls = @ + 1,
            !.serializing = Append(@, [call |-> m.logIns + 1, user |-> user])]

\* (a variant that always starts a fresh record)
SerializedFreshRecord(m, k, err, obj) ==
  LET call == m.serializing[k].call
      m0 == [m EXCEPT !.serializing = Remove(@, k)]
  IN IF err # "" THEN [m0 EXCEPT !.done = Append(@, [call |-> call, err |-> err])]
     ELSE LET m1 == [m0 EXCEPT !.heap = Append(@, EmptyRecord),
                               !.passportSession = Len(m0.heap) + 1]
              m2 == [m1 EXCEPT !.heap[m1.passportSession].user = obj]
              m3 == IF ~m2.hasSession
                    THEN [m2 EXCEPT !.hasSession = TRUE, !.record = 0, !.cart = ""]
                    ELSE m2
              m4 == [m3 EXCEPT !.record = m3.passportSession]
          IN [m4 EXCEPT !.done = Append(@, [call |-> call, err |-> ""])]

\* the callback that logIn gives to this._serializeUser: (err, obj) => { ... }
Serialized(m, k, err, obj) ==
  LET call == m.serializing[k].call
      m0 == [m EXCEPT !.serializing = Remove(@, k)]
  IN IF err # "" THEN [m0 EXCEPT !.done = Append(@, [call |-> call, err |-> err])]
     ELSE LET m1 == IF m0.passportSession = 0
                    THEN [m0 EXCEPT !.heap = Append(@, EmptyRecord),
                                    !.passportSession = Len(m0.heap) + 1]
                    ELSE m0
              m2 == [m1 EXCEPT !.heap[m1.passportSession].user = obj]
              m3 == IF ~m2.hasSession
                    THEN [m2 EXCEPT !.hasSession = TRUE, !.record = 0, !.cart = ""]
                    ELSE m2
              m4 == [m3 EXCEPT !.record = m3.passportSession]
          IN [m4 EXCEPT !.done = Append(@, [call |-> call, err |-> ""])]

\* (a variant that deletes the record from the session)
LogOutDropsRecord(m, cb) ==
  LET m1 == IF m.hasPassport /\ m.passportSession # 0
            THEN [m EXCEPT !.heap[m.passportSession].user = "", !.record = 0]
            ELSE m
  IN IF cb THEN [m1 EXCEPT !.logOuts = @ + 1] ELSE m1

\* SessionManager.prototype.logOut; cb: whether a callback is given
LogOut(m, cb) ==
  LET m1 == IF m.hasPassport /\ m.passportSession # 0
            THEN [m EXCEPT !.heap[m.passportSession].user = ""]
            ELSE m
  IN IF cb THEN [m1 EXCEPT !.logOuts = @ + 1] ELSE m1

\* the records a session may hold under the manager's key when the request
\* arrives: a user entry or none, an entry of another subsystem or none
StoredRecords == [user : {"", "id-0"}, other : {"", "x"}]

\* the requests a manager is used on: without req._passport; fresh, with or
\* without a session; with the record of an earlier login in the session,
\* which req._passport.session refers to
InitialManagers ==
  LET keys == {SessionManagerKey(o) : o \in KeyOptions}
  IN {Manager(key, FALSE, hs, "", <<>>, FALSE) : key \in keys, hs \in BOOLEAN}
     \cup {Manager(key, TRUE, FALSE, "", <<>>, FALSE) : key \in keys}
     \cup {Manager(key, TRUE, TRUE, cart, <<>>, FALSE) : key \in keys, cart \in {"", "book"}}
     \cup {Manager(key, TRUE, TRUE, cart, <<rec>>, TRUE) :
               key \in keys, cart \in {"", "book"}, rec \in StoredRecords}

\* logIn(req, user, cb) is called; it reads req._passport.session and is
\* called on requests that have req._passport
SessionLogIn ==
  \E user \in Users :
    /\ sm.calls < MaxCalls
    /\ sm.hasPassport
    /\ sm' = [LogIn(sm, user) EXCEPT !.calls = @ + 1]
    /\ UNCHANGED <<name, multi, callback, options, session, d, pending, bound, dispatched>>

\* the serializer calls back, with an error or with the serialized user
SerializeDone ==
  \E k \in 1..Len(sm.serializing), err \in {"", "SerializeFailed"}, obj \in SerializedForms :
    /\ sm' = Serialized(sm, k, err, obj)
    /\ UNCHANGED <<name, multi, callback, options, session, d, pending, bound, dispatched>>

\* logOut(req, cb) is called, with or without a callback
SessionLogOut ==
  \E cb \in BOOLEAN :
    /\ sm.calls < MaxCalls
    /\ sm' = [LogOut(sm, cb) EXCEPT !.calls = @ + 1]
    /\ UNCHANGED <<name, multi, callback, options, session, d, pending, bound, dispatched>>

InitSession ==
  /\ Build("local", FALSE, DefaultOptions, FALSE)
  /\ session = NoSession
  /\ d = [r \in Reqs |-> IdleDispatch]
  /\ pending = <<>>
  /\ bound = NoBinding
  /\ dispatched = 0
  /\ sm \in InitialManagers

NextSession ==
  \/ SessionLogIn
  \/ SerializeDone
  \/ SessionLogOut

SpecSession == InitSession /\ [][NextSession]_vars

(***************************************************************************)
(* Vocabulary of the properties.                                           *)
(***************************************************************************)
Halting == {"success", "redirect", "pass", "error"}

Min(a, b) == IF a < b THEN a ELSE b

\* every reference of the chain resolves to a strategy
Resolvable == \A i \in 1..Len(name) : HasAuthenticate(name[i]) \/ StrategyLookup(name[i])

\* every verb invoked in the dispatch of r so far is fail
OnlyFails(r) == \A k \in 1..Len(d[r].verbs) : d[r].verbs[k].verb = "fail"

\* zero or more strategies have called fail and the next one has called success
SucceededAfterFails(r) ==
  /\ Len(d[r].verbs) >= 1
  /\ d[r].verbs[Len(d[r].verbs)].verb = "success"
  /\ \A k \in 1..(Len(d[r].verbs) - 1) : d[r].verbs[k].verb = "fail"

\* the (challenge, status) a call fail(a, b) reports: fail(n) with a number n
\* reports status n and no challenge
Reported(v) ==
  IF v.a.t = "number" THEN [challenge |-> Undefined, status |-> v.a]
  ELSE [challenge |-> v.a, status |-> v.b]

\* the dispatch of r has not touched the response, the flash store, the
\* session messages, the session login or res.redirect
NothingWritten(r) ==
  /\ d[r].res = NoResponse
  /\ d[r].flashes = <<>>
  /\ d[r].messages = <<>>
  /\ d[r].redirects = <<>>
  /\ d[r].saves = <<>>

\* the response as strategy.redirect(url, status) leaves it
IsRedirectResponse(res) ==
  /\ res.statusCode \in {301, 302}
  /\ res.location # ""
  /\ res.contentLength = "0"
  /\ res.ended = 1
  /\ res.wwwAuthenticate = <<>>
  /\ res.body = 0

(***************************************************************************)
(* C1.  Once the strategy at index i has invoked success, redirect, pass  *)
(* or error, no strategy at an index greater than i is attempted and the  *)
(* all-failed procedure does not run, whatever the options and with or    *)
(* without a callback.                                                     *)
(***************************************************************************)
C1_HaltingVerbEndsChain ==
  \A r \in Reqs : \A k \in 1..Len(d[r].verbs) :
    d[r].verbs[k].verb \in Halting =>
      /\ \A j \in 1..Len(d[r].attempts) : d[r].attempts[j] <= d[r].verbs[k].idx
      /\ d[r].allFailedRuns = 0
      /\ \A t \in 1..Len(pending) : ~(pending[t].kind = "strategy" /\ pending[t].req = r)

\* the first strategy of a longer chain has halted the dispatch, which has ended
C1_Witness ==
  \E r \in Reqs :
    /\ Len(name) >= 2
    /\ Len(d[r].verbs) = 1
    /\ d[r].verbs[1].verb \in Halting
    /\ d[r].attempts = <<0>>
    /\ pending = <<>>

(***************************************************************************)
(* C2.  In a chain of N >= 1 strategies that all call fail, authenticate  *)
(* is invoked once on each strategy, in listed order, strategy i+1 only   *)
(* after strategy i has failed; when the chain is exhausted the failure   *)
(* sequence holds the N reported (challenge, status) records in listed    *)
(* order and the all-failed procedure has run exactly once.               *)
(***************************************************************************)
C2_AllFailInOrder ==
  \A r \in Reqs :
    (d[r].started /\ Len(name) >= 1 /\ Resolvable /\ OnlyFails(r)) =>
      LET n == Len(d[r].verbs)
      IN /\ n <= Len(name)
         /\ d[r].attempts = [j \in 1..Min(n + 1, Len(name)) |-> j - 1]
         /\ \A k \in 1..n : d[r].verbs[k].idx = k - 1
         /\ Len(d[r].failures) = n
         /\ \A k \in 1..n : d[r].failures[k] = Reported(d[r].verbs[k])
         /\ d[r].allFailedRuns = (IF n = Len(name) THEN 1 ELSE 0)

\* a chain of two strategies is exhausted, with two different failure records
C2_Witness ==
  \E r \in Reqs :
    /\ Len(name) = 2
    /\ OnlyFails(r)
    /\ Len(d[r].failures) = 2
    /\ d[r].failures[1] # d[r].failures[2]
    /\ d[r].allFailedRuns = 1

(***************************************************************************)
(* C3.  When zero or more leading strategies fail and the next one calls  *)
(* success with identity U, the dispatch resolves as success with U (U    *)
(* goes to the callback, to the assigned property or to the session       *)
(* login) and no part of the failure response is produced: no status, no  *)
(* WWW-Authenticate header, no body, no failure flash or message, no      *)
(* failureRedirect.                                                        *)
(***************************************************************************)
C3_SuccessAfterFailures ==
  \A r \in Reqs :
    SucceededAfterFails(r) =>
      LET v == d[r].verbs[Len(d[r].verbs)]
      IN /\ IF callback
            THEN d[r].callbackCalls =
                   <<[err |-> Scalar(Null), user |-> Scalar(v.a), info |-> Scalar(v.b),
                      status |-> NotPassed]>>
            ELSE IF options.assignProperty # ""
                 THEN d[r].assigned = v.a /\ d[r].logIns = <<>>
                 ELSE d[r].logIns = <<v.a>> /\ d[r].assigned = Undefined
         /\ d[r].allFailedRuns = 0
         /\ d[r].res = NoResponse
         /\ \A j \in 1..Len(d[r].flashes) : d[r].flashes[j].site # "failure"
         /\ \A j \in 1..Len(d[r].messages) : d[r].messages[j].site # "failure"
         /\ options.failureRedirect # "" =>
              /\ \A j \in 1..Len(d[r].redirects) : d[r].redirects[j] # options.failureRedirect
              /\ \A j \in 1..Len(d[r].saves) : d[r].saves[j] # options.failureRedirect

\* a strategy has failed with ("basic", 401) and the next has succeeded, under
\* options that configure a failure flash, message and redirect
C3_Witness ==
  \E r \in Reqs :
    /\ SucceededAfterFails(r)
    /\ Len(d[r].verbs) = 2
    /\ d[r].failures = <<[challenge |-> JSStr("basic"), status |-> JSNum(401)]>>
    /\ ~callback
    /\ Truthy(options.failureFlash)
    /\ Truthy(options.failureMessage)
    /\ options.failureRedirect # ""
    /\ d[r].logIns # <<>>

(***************************************************************************)
(* C4.  As claimed: when a callback is supplied, for every outcome        *)
(* (success, all failed, redirect, pass, error) the dispatcher performs   *)
(* no session login, issues no redirect, writes nothing to the response   *)
(* and records no flash or session message.                               *)
(***************************************************************************)
C4_CallbackWritesNothing ==
  callback => \A r \in Reqs : d[r].logIns = <<>> /\ NothingWritten(r)

(***************************************************************************)
(* C4, amended.  When a callback is supplied the dispatcher performs no   *)
(* session login, calls no res.redirect, starts no session save and       *)
(* records no flash or session message, for every outcome; it writes to   *)
(* the response only when a strategy invokes redirect, and then exactly   *)
(* the redirect response (status, Location, Content-Length: 0, end).      *)
(***************************************************************************)
C4_CallbackWritesOnlyStrategyRedirect ==
  callback =>
    \A r \in Reqs :
      /\ d[r].logIns = <<>>
      /\ d[r].flashes = <<>>
      /\ d[r].messages = <<>>
      /\ d[r].redirects = <<>>
      /\ d[r].saves = <<>>
      /\ d[r].assigned = Undefined
      /\ IF \E k \in 1..Len(d[r].verbs) : d[r].verbs[k].verb = "redirect"
         THEN IsRedirectResponse(d[r].res)
         ELSE d[r].res = NoResponse

\* with a callback and options that ask for a failure flash and redirect, a
\* strategy has succeeded after one has failed and the callback has been called
C4_Witness ==
  \E r \in Reqs :
    /\ callback
    /\ Truthy(options.failureFlash)
    /\ options.failureRedirect # ""
    /\ SucceededAfterFails(r)
    /\ Len(d[r].failures) = 1
    /\ Len(d[r].callbackCalls) = 1

(***************************************************************************)
(* C5.  With a callback, when every strategy of the chain has failed the  *)
(* callback is invoked exactly once, with (null, false, c, s): c and s    *)
(* are the challenge and status of the failure record when the strategy   *)
(* was given as a single reference, and the sequences of all challenges   *)
(* and all statuses, in listed order and as long as the chain, when the   *)
(* strategies were given as a sequence (of any length, 1 included).       *)
(***************************************************************************)
C5_CallbackFailureShape ==
  \A r \in Reqs :
    (callback /\ d[r].allFailedRuns > 0) =>
      LET fs == d[r].failures
          call == d[r].callbackCalls[1]
      IN /\ Len(d[r].callbackCalls) = 1
         /\ d[r].nextCalls = <<>>
         /\ call.err = Scalar(Null)
         /\ call.user = Scalar(JSBool(FALSE))
         /\ IF multi
            THEN /\ call.info.isArray /\ call.status.isArray
                 /\ Len(call.info.items) = Len(name)
                 /\ Len(call.status.items) = Len(name)
                 /\ Len(fs) = Len(name)
                 /\ \A k \in 1..Len(name) :
                      /\ call.info.items[k] = fs[k].challenge
                      /\ call.status.items[k] = fs[k].status
            ELSE /\ ~call.info.isArray /\ ~call.status.isArray
                 /\ call.info.items = <<fs[1].challenge>>
                 /\ call.status.items = <<fs[1].status>>

\* the strategies were given as a sequence of one, which has failed
C5_Witness ==
  \E r \in Reqs :
    /\ callback /\ multi
    /\ Len(name) = 1
    /\ d[r].allFailedRuns = 1
    /\ d[r].failures = <<[challenge |-> JSStr("basic"), status |-> JSNum(401)]>>
    /\ Len(d[r].callbackCalls) = 1

\* the default failure response applies: no callback, no failureRedirect, and
\* the all-failed procedure has run
DefaultFailure(r) ==
  /\ ~callback
  /\ options.failureRedirect = ""
  /\ d[r].allFailedRuns > 0

\* the indexes of the failure records that carry a status
WithStatus(fs) == {k \in 1..Len(fs) : fs[k].status.t = "number" /\ fs[k].status.n # 0}

(***************************************************************************)
(* C6.  With no callback and no failureRedirect, when all strategies have *)
(* failed the response status is the status of the first failure record,  *)
(* in listed order, that carries one, and 401 when none does.             *)
(***************************************************************************)
C6_FirstStatusWins ==
  \A r \in Reqs :
    DefaultFailure(r) =>
      LET fs == d[r].failures
          ks == WithStatus(fs)
      IN d[r].res.statusCode =
           (IF ks = {} THEN 401
            ELSE fs[CHOOSE k \in ks : \A j \in ks : k <= j].status.n)

\* the first record has an object challenge and status 403, the second has
\* status 401: the response status is 403
C6_Witness ==
  \E r \in Reqs :
    /\ DefaultFailure(r)
    /\ Len(d[r].failures) = 2
    /\ d[r].failures[1].challenge.t = "object"
    /\ d[r].failures[1].status = JSNum(403)
    /\ d[r].failures[2].status = JSNum(401)
    /\ d[r].res.statusCode = 403

\* the string challenges of the failure records, in listed order
IsStringChallenge(f) == f.challenge.t = "string"
StringChallenges(fs) ==
  LET strs == SelectSeq(fs, IsStringChallenge)
  IN [k \in 1..Len(strs) |-> strs[k].challenge.s]

(***************************************************************************)
(* C7.  With no callback and no failureRedirect, when all strategies have *)
(* failed the WWW-Authenticate header is set if and only if the response  *)
(* status is 401 and some failure record has a string challenge; its      *)
(* value is then the string challenges of all failure records in listed   *)
(* order, and never holds a non-string challenge.                         *)
(***************************************************************************)
C7_ChallengeHeader ==
  \A r \in Reqs :
    DefaultFailure(r) =>
      LET strs == StringChallenges(d[r].failures)
      IN IF d[r].res.statusCode = 401 /\ strs # <<>>
         THEN d[r].res.wwwAuthenticate = strs
         ELSE d[r].res.wwwAuthenticate = <<>>

\* two strategies have failed with string challenges, the second one carrying
\* the 401: the header lists both, in listed order
C7_Witness ==
  \E r \in Reqs :
    /\ DefaultFailure(r)
    /\ d[r].failures = << [challenge |-> JSStr("bearer"), status |-> Undefined],
                          [challenge |-> JSStr("basic"), status |-> JSNum(401)] >>
    /\ d[r].res.wwwAuthenticate = <<"bearer", "basic">>

(***************************************************************************)
(* C8.  When dispatches of the same handler are in flight concurrently,   *)
(* every verb a strategy invokes on behalf of one request acts on that    *)
(* request's own dispatch only, for strategies referenced by name and for *)
(* strategy instances passed directly.                                     *)
(***************************************************************************)
C8_VerbsActOnOwnRequest ==
  \A r \in Reqs : \A k \in 1..Len(d[r].verbs) : d[r].verbs[k].from = r

\* the indexes of the references that resolve to no strategy
Unknown == {i \in 0..(Len(name) - 1) :
              ~HasAuthenticate(name[i + 1]) /\ ~StrategyLookup(name[i + 1])}

(***************************************************************************)
(* C9.  If the reference at index i resolves to no strategy, the dispatch *)
(* ends by passing an unknown-strategy error to next exactly once: no     *)
(* record is added to the failure sequence, no strategy at index i or     *)
(* later is attempted, the all-failed procedure does not run and nothing  *)
(* is written, also when strategies before i have already failed.         *)
(***************************************************************************)
C9_UnknownStrategy ==
  \A r \in Reqs : \A i \in Unknown :
    (d[r].started /\ \A j \in Unknown : i <= j) =>
      /\ Len(d[r].failures) <= i
      /\ \A j \in 1..Len(d[r].attempts) : d[r].attempts[j] < i
      /\ d[r].allFailedRuns = 0
      /\ (Len(d[r].failures) = i) =>
           /\ d[r].nextCalls = <<NextError("UnknownStrategy")>>
           /\ d[r].callbackCalls = <<>>
           /\ d[r].logIns = <<>>
           /\ NothingWritten(r)
           /\ \A t \in 1..Len(pending) : pending[t].req # r
      /\ (Len(d[r].failures) < i /\ OnlyFails(r)) => d[r].nextCalls = <<>>

\* the first strategy has failed and the second reference is unknown
C9_Witness ==
  \E r \in Reqs :
    /\ Unknown = {1}
    /\ Len(d[r].failures) = 1
    /\ d[r].attempts = <<0>>
    /\ d[r].nextCalls = <<NextError("UnknownStrategy")>>

(***************************************************************************)
(* C10.  When a strategy invokes error(cause), the cause is delivered     *)
(* exactly once, to the callback if one was supplied and to next          *)
(* otherwise, and no flash, session message, redirect or response write   *)
(* happens, also after earlier failures and with failureFlash,            *)
(* failureMessage or failureRedirect configured.                          *)
(***************************************************************************)
C10_ErrorBypasses ==
  \A r \in Reqs : \A k \in 1..Len(d[r].verbs) :
    d[r].verbs[k].verb = "error" =>
      /\ IF callback
         THEN /\ d[r].callbackCalls =
                   <<[err |-> Scalar(d[r].verbs[k].a), user |-> NotPassed, info |-> NotPassed,
                      status |-> NotPassed]>>
              /\ d[r].nextCalls = <<>>
         ELSE /\ d[r].nextCalls = <<NextError(d[r].verbs[k].a.s)>>
              /\ d[r].callbackCalls = <<>>
      /\ d[r].logIns = <<>>
      /\ NothingWritten(r)

\* a strategy has failed and the next has reported an error, under options
\* that configure a failure flash, message and redirect
C10_Witness ==
  \E r \in Reqs :
    /\ ~callback
    /\ Truthy(options.failureFlash)
    /\ Truthy(options.failureMessage)
    /\ options.failureRedirect # ""
    /\ Len(d[r].failures) = 1
    /\ Len(d[r].verbs) = 2
    /\ d[r].verbs[2].verb = "error"
    /\ Len(d[r].nextCalls) = 1

\* the success verb has been invoked on request r, with identity u
Succeeded(r, u) ==
  \E j \in 1..Len(d[r].verbs) : d[r].verbs[j].verb = "success" /\ d[r].verbs[j].a = u

(***************************************************************************)
(* C11.  With no callback and assignProperty configured, a success with   *)
(* identity U stores U in the configured property of the request, never   *)
(* performs the session login, issues no redirect and starts no session   *)
(* save (successRedirect and successReturnToOrRedirect, if configured,    *)
(* are ignored), writes nothing to the response, and calls next() exactly *)
(* once, with no error.                                                    *)
(***************************************************************************)
C11_AssignProperty ==
  \A r \in Reqs : \A u \in Users :
    (~callback /\ options.assignProperty # "" /\ Succeeded(r, u)) =>
      /\ d[r].assigned = u
      /\ d[r].logIns = <<>>
      /\ d[r].redirects = <<>>
      /\ d[r].saves = <<>>
      /\ d[r].res = NoResponse
      /\ d[r].nextCalls = <<NextOk>>
      /\ \A k \in 1..Len(pending) : pending[k].req # r

\* alice has succeeded under assignProperty with both success redirects
\* configured and a pending returnTo in a session that can save
C11_Witness ==
  \E r \in Reqs :
    /\ ~callback
    /\ options.assignProperty # ""
    /\ options.successRedirect # ""
    /\ options.successReturnToOrRedirect # ""
    /\ session.exists /\ session.canSave /\ session.returnTo # ""
    /\ Succeeded(r, JSStr("alice"))
    /\ d[r].assigned = JSStr("alice")

\* the URLs that the dispatcher's redirect(url) has been called with for
\* request r: it starts a session save for each when the session can save, and
\* redirects at once when it cannot
Requested(r) == IF session.exists /\ session.canSave THEN d[r].saves ELSE d[r].redirects

\* in this step redirect(url) is called for request r, which has succeeded
SuccessRedirects(r) ==
  /\ ~callback
  /\ options.assignProperty = ""
  /\ \E u \in Users : Succeeded(r, u)
  /\ Len(Requested(r)') = Len(Requested(r)) + 1

\* the URL that redirect(url) is called with in this step
RedirectedTo(r) == Requested(r)'[Len(Requested(r)')]

(***************************************************************************)
(* C12, as claimed.  With successRedirect set (no callback, no            *)
(* assignProperty) and a returnTo URL pending in the session, a success   *)
(* redirects to the returnTo URL and removes it from the session.         *)
(***************************************************************************)
C12_ReturnToUnderSuccessRedirect ==
  [][\A r \in Reqs :
       (/\ SuccessRedirects(r)
        /\ options.successRedirect # ""
        /\ session.exists /\ session.returnTo # "") =>
         /\ RedirectedTo(r) = session.returnTo
         /\ session'.returnTo = ""]_vars

\* two requests, one after the other, have succeeded and been sent somewhere
BothSent(r1, r2) ==
  /\ r1 < r2
  /\ ~callback
  /\ options.assignProperty = ""
  /\ \E u \in Users : Succeeded(r1, u)
  /\ \E u \in Users : Succeeded(r2, u)
  /\ Requested(r1) # <<>>
  /\ Requested(r2) # <<>>

(***************************************************************************)
(* C12, amended.  With successReturnToOrRedirect set (no callback, no     *)
(* assignProperty), a success redirects to the returnTo URL pending in    *)
(* the session and removes it from the session, or, with none pending,    *)
(* redirects to the configured URL and leaves the session as it is; so    *)
(* of two successes, one after the other, the second is redirected to the *)
(* configured URL and finds no returnTo.  With successRedirect alone the  *)
(* returnTo URL is neither used nor removed.                               *)
(***************************************************************************)
C12_ReturnToOnce ==
  /\ [][\A r \in Reqs :
          SuccessRedirects(r) =>
            IF options.successReturnToOrRedirect # ""
            THEN IF session.exists /\ session.returnTo # ""
                 THEN /\ RedirectedTo(r) = session.returnTo
                      /\ session' = [session EXCEPT !.returnTo = ""]
                 ELSE /\ RedirectedTo(r) = options.successReturnToOrRedirect
                      /\ session' = session
            ELSE /\ RedirectedTo(r) = options.successRedirect
                 /\ session' = session]_vars
  /\ [](\A r1, r2 \in Reqs :
          (BothSent(r1, r2) /\ options.successReturnToOrRedirect # "") =>
            /\ Requested(r2) = <<options.successReturnToOrRedirect>>
            /\ session.returnTo = "")

\* the first success has been sent to the returnTo URL and the second to the
\* configured one, each after its session save
C12_Witness ==
  /\ BothSent(1, 2)
  /\ options.successReturnToOrRedirect # ""
  /\ d[1].redirects = <<"/dash">>
  /\ d[2].redirects = <<options.successReturnToOrRedirect>>
  /\ d[1].saves = <<"/dash">>
  /\ session.returnTo = ""

\* the calls of req.logIn and passport.transformAuthInfo for request r that
\* have not called back yet
LoggingIn(r) ==
  {k \in 1..Len(pending) : pending[k].req = r /\ pending[k].kind \in {"logIn", "transform"}}

\* in this step the login of request r is completed: req.logIn, or after it
\* passport.transformAuthInfo, calls back without an error and nothing of the
\* login remains to wait for
Completes(r) ==
  /\ ~callback
  /\ LoggingIn(r) # {}
  /\ LoggingIn(r)' = {}
  /\ d'[r].nextCalls \in {d[r].nextCalls, Append(d[r].nextCalls, NextOk)}

(***************************************************************************)
(* C13.  With no callback and no assignProperty, the step that completes  *)
(* a successful login does exactly one thing.  If successReturnToOrRedirect*)
(* is configured it calls redirect(url) once, with the session's returnTo  *)
(* when one is present, which is deleted from the session in the same     *)
(* step, before the session save is started and before res.redirect, and  *)
(* with the configured successReturnToOrRedirect otherwise; this option    *)
(* takes precedence over successRedirect.  Else, if successRedirect is     *)
(* configured, it calls redirect(successRedirect) once.  Else it calls     *)
(* next() once, without an error, and writes no response.  A redirect is  *)
(* res.redirect at once when the session cannot save and the start of a   *)
(* session save when it can; next() is never combined with a redirect.    *)
(***************************************************************************)
C13_CompletionChoosesOne ==
  [][\A r \in Reqs :
       Completes(r) =>
         LET url == IF options.successReturnToOrRedirect # ""
                    THEN IF session.exists /\ session.returnTo # ""
                         THEN session.returnTo
                         ELSE options.successReturnToOrRedirect
                    ELSE options.successRedirect
         IN /\ options.assignProperty = ""
            /\ Requested(r) = <<>>
            /\ d[r].nextCalls = <<>>
            /\ d[r].res = NoResponse
            /\ IF url # ""
               THEN /\ Requested(r)' = <<url>>
                    /\ d'[r].nextCalls = <<>>
                    /\ session'.returnTo =
                         (IF options.successReturnToOrRedirect # "" THEN "" ELSE session.returnTo)
                    /\ IF session.exists /\ session.canSave
                       THEN d'[r].saves = <<url>> /\ d'[r].redirects = <<>>
                       ELSE d'[r].redirects = <<url>> /\ d'[r].saves = <<>>
                    /\ d'[r].res = NoResponse
               ELSE /\ d'[r].nextCalls = <<NextOk>>
                    /\ Requested(r)' = <<>>
                    /\ d'[r].res = NoResponse
                    /\ session' = session]_vars

\* a login has been completed under both success redirects, with a returnTo
\* pending in a session that can save: the save for the returnTo URL is under
\* way, returnTo is gone and nothing has been written yet
C13_Witness ==
  \E r \in Reqs :
    /\ ~callback
    /\ options.successReturnToOrRedirect # ""
    /\ options.successRedirect # ""
    /\ d[r].logIns # <<>>
    /\ d[r].saves = <<"/dash">>
    /\ d[r].redirects = <<>>
    /\ d[r].res = NoResponse
    /\ session.returnTo = ""
    /\ \E k \in 1..Len(pending) : pending[k].req = r /\ pending[k].kind = "save"

\* the numbers a strategy may give as a status
StatusNumbers == {JSNum(0), JSNum(401), JSNum(403)}

(***************************************************************************)
(* C14.  For every number n, wherever a strategy is in flight, its        *)
(* calling fail(n) and its calling fail(undefined, n) have the same       *)
(* effect: the failure recorded has no challenge and the status n, and    *)
(* the whole synchronous run that follows (the next attempt, or the       *)
(* all-failed procedure with its flash, message, status, header, body,    *)
(* redirect, callback or next) leaves the same state, so that everything  *)
(* observable later is the same.                                           *)
(***************************************************************************)
C14_NumericChallengeIsStatus ==
  \A k \in Tasks("strategy") : \A n \in StatusNumbers :
    LET c == VerbsOf(pending[k])
        w == World(c.req)
        one == Fail(w, c.idx, n, Undefined)
        two == Fail(w, c.idx, Undefined, n)
        fs == one.d.failures
    IN /\ one = two
       /\ Len(fs) = Len(w.d.failures) + 1
       /\ fs[Len(fs)] = [challenge |-> Undefined, status |-> n]

\* a strategy has called fail(403), the failure is on record as one with no
\* challenge and the status 403, and the all-failed procedure has answered 403
C14_Witness ==
  \E r \in Reqs :
    /\ OnlyFails(r)
    /\ Len(d[r].verbs) >= 1
    /\ d[r].verbs[1].a = JSNum(403)
    /\ d[r].verbs[1].b = Undefined
    /\ d[r].failures[1] = [challenge |-> Undefined, status |-> JSNum(403)]
    /\ d[r].allFailedRuns = 1
    /\ ~callback
    /\ d[r].res.statusCode = 403

\* the session of manager state m holds a record under the manager's key
HasRecord(m) == m.hasSession /\ m.record # 0

\* the user entry of that record ("": none)
SessionUser(m) == IF HasRecord(m) THEN m.heap[m.record].user ELSE ""

(***************************************************************************)
(* C15.  In every state that calls of logIn and logOut (and the           *)
(* serializer's answers) lead to, from a request with or without an       *)
(* earlier login, logOut leaves the session record under the manager's    *)
(* key without a user entry and changes nothing else: the record's other  *)
(* entries, the session's other entries and the logins in progress stay   *)
(* as they are, no session and no record is created or removed.  It does  *)
(* not throw, it calls its callback exactly once when it is given one,    *)
(* and a second logOut changes nothing.                                    *)
(***************************************************************************)
C15_LogOutRemovesUser ==
  /\ ~sm.threw
  /\ \A cb \in BOOLEAN :
       LET t == LogOut(sm, cb)
           again == LogOut(t, cb)
           told == IF cb THEN 1 ELSE 0
       IN /\ SessionUser(t) = ""
          /\ HasRecord(t) = HasRecord(sm)
          /\ HasRecord(sm) => t.heap[t.record] = [sm.heap[sm.record] EXCEPT !.user = ""]
          /\ t.hasSession = sm.hasSession /\ t.record = sm.record /\ t.cart = sm.cart
          /\ t.serializing = sm.serializing /\ t.done = sm.done
          /\ ~t.threw
          /\ t.logOuts = sm.logOuts + told
          /\ again = [t EXCEPT !.logOuts = @ + told]

\* a login has been completed and a logOut with a callback has followed: the
\* record is still in the session, without the user and with its other entry
C15_Witness ==
  /\ \E j \in 1..Len(sm.done) : sm.done[j].err = ""
  /\ sm.logOuts >= 1
  /\ sm.serializing = <<>>
  /\ HasRecord(sm)
  /\ sm.heap[sm.record] = [user |-> "", other |-> "x"]
  /\ sm.cart = "book"

\* the calls of logIn whose serializer has not called back, and those whose
\* callback cb has been called
Serializing(m) == {m.serializing[j].call : j \in 1..Len(m.serializing)}
Done(m) == {m.done[j].call : j \in 1..Len(m.done)}

Effects(w) ==
  [ callbackCalls |-> w.d.callbackCalls,
    nextCalls |-> w.d.nextCalls,
    flashes |-> w.d.flashes,
    messages |-> w.d.messages,
    redirects |-> w.d.redirects,
    saves |-> w.d.saves,
    res |-> w.d.res,
    allFailedRuns |-> w.d.allFailedRuns,
    session |-> w.session,
    options |-> w.options,
    spawn |-> w.spawn ]

\* the strategies in flight that are the first and only one of their chain
SoleStrategies ==
  {k \in Tasks("strategy") : Len(name) = 1 /\ d[pending[k].req].verbs = <<>>}

\* for the request of task k: the effects of the sole strategy's fail() and
\* those of a chain of no strategy, whose attempt(0) is allFailed()
SoleFailure(k) == Effects(Fail(World(pending[k].req), 0, Undefined, Undefined))
EmptyChain(k) == Effects(AllFailed(World(pending[k].req)))

(***************************************************************************)
(* C17, as claimed.  Under the same options and callback, a dispatch over *)
(* a chain of no strategy has the same effects as one over a chain whose  *)
(* sole strategy calls fail() at once (taken here for chains given as a   *)
(* sequence, as the empty one is).                                         *)
(***************************************************************************)
C17_EmptyChainAsSoleFailure ==
  \A k \in SoleStrategies : multi => SoleFailure(k) = EmptyChain(k)

(***************************************************************************)
(* C17, amended.  Under the same options and with no callback, a dispatch *)
(* over a chain of no strategy has the same effects as one over a chain   *)
(* whose sole strategy calls fail() at once: the all-failed procedure runs *)
(* once and gives the same flash, session message, redirect or status     *)
(* (401), header and body, and the same next(error) under failWithError.  *)
(* With a callback the two differ: the callback gets the challenges and   *)
(* statuses of as many failures as the chain has strategies, none for the *)
(* empty chain and one, undefined, for the sole strategy.                  *)
(***************************************************************************)
C17_EmptyChainAsSoleFailureNoCallback ==
  \A k \in SoleStrategies :
    IF ~callback THEN SoleFailure(k) = EmptyChain(k)
    ELSE multi =>
           /\ EmptyChain(k).callbackCalls =
                <<[err |-> Scalar(Null), user |-> Scalar(JSBool(FALSE)),
                   info |-> Array(<<>>), status |-> Array(<<>>)]>>
           /\ SoleFailure(k).callbackCalls =
                <<[err |-> Scalar(Null), user |-> Scalar(JSBool(FALSE)),
                   info |-> Array(<<Undefined>>), status |-> Array(<<Undefined>>)]>>

\* the sole strategy of a chain has called fail() and, with no callback, a
\* failure flash configured and no failureRedirect, the answer is a 401
C17_Witness ==
  \E r \in Reqs :
    /\ Len(name) = 1
    /\ ~callback
    /\ Len(d[r].verbs) = 1
    /\ d[r].verbs[1].verb = "fail"
    /\ d[r].verbs[1].a = Undefined /\ d[r].verbs[1].b = Undefined
    /\ d[r].allFailedRuns = 1
    /\ Truthy(options.failureFlash)
    /\ d[r].res.statusCode = 401
    /\ d[r].res.ended = 1

\* the session saves started for request r that have not called back
Saving(r) == {k \in Tasks("save") : pending[k].req = r}

\* the URLs the options and the session can send a request to
RedirectTargets ==
  {options.failureRedirect, options.successRedirect, options.successReturnToOrRedirect, "/dash"}
    \ {""}

(***************************************************************************)
(* C18.  For every request, whether redirect(url) is reached from the     *)
(* all-failed procedure (failureRedirect) or from the completion of a     *)
(* login: when the session can save, a session save is started first and  *)
(* res.redirect(url) is called only by the callback of that save, once,   *)
(* with the URL the save was started for, so at any time the redirects    *)
(* issued and the saves in progress add up to the saves started; when     *)
(* there is no session or it cannot save, no save is started and          *)
(* res.redirect(url) is called at once.  No request is redirected twice.  *)
(***************************************************************************)
C18_RedirectAfterSave ==
  \A r \in Reqs :
    /\ Len(d[r].redirects) <= 1
    /\ \A j \in 1..Len(d[r].redirects) : d[r].redirects[j] \in RedirectTargets
    /\ IF session.exists /\ session.canSave
       THEN /\ Len(d[r].saves) <= 1
            /\ Len(d[r].redirects) + Cardinality(Saving(r)) = Len(d[r].saves)
            /\ d[r].redirects = SubSeq(d[r].saves, 1, Len(d[r].redirects))
            /\ \A k \in Saving(r) : pending[k].url = d[r].saves[Len(d[r].saves)]
       ELSE /\ d[r].saves = <<>>
            /\ Saving(r) = {}
            /\ (~callback /\ d[r].allFailedRuns = 1 /\ options.failureRedirect # "") =>
                 d[r].redirects = <<options.failureRedirect>>

\* all strategies have failed under failureRedirect with a session that can
\* save: the save has called back and the redirect to /login has been issued
C18_Witness ==
  \E r \in Reqs :
    /\ ~callback
    /\ session.exists /\ session.canSave
    /\ options.failureRedirect # ""
    /\ d[r].allFailedRuns = 1
    /\ d[r].saves = <<options.failureRedirect>>
    /\ d[r].redirects = <<options.failureRedirect>>
    /\ Saving(r) = {}

(***************************************************************************)
(* C19.  No step of a dispatch modifies the options the handler was built *)
(* with: every option, every field of an object-valued failureFlash or    *)
(* successFlash included, keeps its value.                                 *)
(***************************************************************************)
C19_OptionsUnchanged == [][options' = options]_vars

\* the terminal actions taken for request r: calls of next (with or without
\* an error), calls of the callback, ends of the response, and res.redirect
Terminal(r) ==
  Len(d[r].nextCalls) + Len(d[r].callbackCalls) + d[r].res.ended + Len(d[r].redirects)

\* nothing is in flight for request r
Settled(r) == \A k \in 1..Len(pending) : pending[k].req # r

\* the dispatch of request r has taken its one terminal action and is over
Resolved(r) == Terminal(r) = 1 /\ Settled(r)

(***************************************************************************)
(* C20.  When every strategy that is attempted invokes a verb and every   *)
(* asynchronous collaborator calls back: whenever a dispatch has started  *)
(* and is not resolved, eventually every dispatch that has started is     *)
(* resolved, that is, has taken exactly one terminal action (next(),      *)
(* next(error), the callback, the end of the response, or a response      *)
(* redirect) and has nothing left in flight; and at no time has a         *)
(* dispatch taken a second terminal action.                                *)
(***************************************************************************)
C20_OneTerminalAction ==
  /\ (\E r \in Reqs : d[r].started /\ ~Resolved(r))
       ~> (\A r \in Reqs : d[r].started => Resolved(r))
  /\ [](\A r \in Reqs : Terminal(r) <= 1)

\* a dispatch has gone the longest way: a failure, a success, the login, the
\* transformation of the info, the session save and then the one redirect
C20_Witness ==
  \E r \in Reqs :
    /\ SucceededAfterFails(r)
    /\ Len(d[r].verbs) = 2
    /\ d[r].logIns # <<>>
    /\ d[r].authInfo
    /\ d[r].saves # <<>>
    /\ d[r].redirects = d[r].saves
    /\ Terminal(r) = 1
    /\ Settled(r)
====
